---- MODULE Spec2Model ----
(***************************************************************************)
(* Bank Reserves model with its batch runner (src/batch_run.py).           *)
(*                                                                         *)
(* Three specifications share the variables below:                         *)
(*   Spec        one trial: BankReservesModel.__init__ followed by ticks   *)
(*               of BankReservesModel.step(); the Bank and the Person      *)
(*               (module bank_reserves.agents, imported by batch_run.py)   *)
(*               follow the written specification of their contracts;      *)
(*   MetricsSpec the datacollector functions applied to a population;      *)
(*   BatchSpec   batch_run(): the sweep, the constructor's uid counter.    *)
(* Money amounts are integers.  The grid is not modelled: the neighbours   *)
(* a Person finds are a nondeterministic choice among the other Persons.   *)
(***************************************************************************)
EXTENDS Integers, Sequences, FiniteSets

VARIABLES
    \* ---- one trial (Spec)
    wallet,          \* Person.wallet, by unique id
    savings,         \* Person.savings
    loans,           \* Person.loans
    bank,            \* the Bank: reserve_percent, deposits, loans
    reserve_percent, \* model.reserve_percent
    trade_threshold, \* model.trade_threshold
    queue,           \* activations of the running step() still to do
    phase,           \* position inside step(): idle, balance, trade, end
    stepped,         \* activations of each Person in the running step()
    grant,           \* the last request_loan: requested, capacity, granted
    traded,          \* what the trade of the running Person step moved
    \* ---- datacollector functions (MetricsSpec)
    agents,          \* model.schedule.agents: sequence of Person records
    rich_threshold,  \* model.rich_threshold
    row,             \* what the reporters returned for this model, once collected
    \* ---- batch_run (BatchSpec)
    id_gen,          \* BankReservesModel.id_gen: the next value it yields
    params,          \* variable_params, fixed_params, iterations, max_steps
    bpc,             \* position inside run_all
    combo,           \* index of the running parameter combination
    trial,           \* trials of this combination already run
    model,           \* the model of the running trial
    built,           \* every constructor call so far, in order
    table,           \* the collected rows
    raised           \* the exception that ended the batch, if any

vars == <<wallet, savings, loans, bank, reserve_percent, trade_threshold,
          queue, phase, stepped, grant, traded, agents, rich_threshold, row,
          id_gen, params, bpc, combo, trial, model, built, table, raised>>

simVars == <<wallet, savings, loans, bank, reserve_percent, trade_threshold,
             queue, phase, stepped, grant, traded>>
metVars == <<agents, rich_threshold, row>>
batVars == <<id_gen, params, bpc, combo, trial, model, built, table, raised>>

\* ------------------------------------------------------------------------
\* Bounds

\* Persons of the trial
NumPeople == 3
\* step() is not called again once the Bank holds this much in deposits
MaxDeposits == 2
\* largest population handed to the datacollector functions
MaxAgents == 2
\* largest wallet and largest savings of those populations
MaxWallet == 1
MaxSavings == 2
\* longest list of candidate values of a swept parameter
MaxSweep == 2
\* most trials per combination, most steps per trial
MaxIterations == 2
MaxSteps == 2

Min(a, b) == IF a < b THEN a ELSE b
Max(a, b) == IF a > b THEN a ELSE b

RECURSIVE SumSeq(_)
SumSeq(s) == IF s = <<>> THEN 0 ELSE Head(s) + SumSeq(Tail(s))

\* ------------------------------------------------------------------------
\* BankReservesModel.__init__ (one trial)

\* unique ids handed to Person: range(init_people)
PersonIds(n) == 0 .. (n - 1)

People == PersonIds(NumPeople)

\* wallets a Person may be seeded with
SeedWallets == {0, 1}

ReservePercents == {0, 50, 100}
TradeThresholds == {0, 1}

\* the reserve percent the constructor hands to Bank(1, self, ...)
BankArgZero(rp) == 0
BankArg(rp) == rp

\* Bank after construction: nothing deposited, nothing lent
Bank(rp) == [reserve_percent |-> rp, deposits |-> 0, loans |-> 0]

NoGrant == [requested |-> 0, capacity |-> 0, granted |-> 0]
NoTraded == 0

\* ------------------------------------------------------------------------
\* datacollector functions; ags is model.schedule.agents, a sequence of
\* Person records

Person(w, s, l) == [wallet |-> w, savings |-> s, loans |-> l]

\* the schedule of the running trial: Persons in the order they were added
schedule_agents ==
    [i \in 1 .. NumPeople |->
        Person(wallet[i - 1], savings[i - 1], loans[i - 1])]

get_total_savings(ags) == SumSeq([i \in 1 .. Len(ags) |-> ags[i].savings])

get_total_wallets_but_last(ags) ==
    SumSeq([i \in 1 .. Len(ags) - 1 |-> ags[i].wallet])
get_total_wallets(ags) == SumSeq([i \in 1 .. Len(ags) |-> ags[i].wallet])

get_total_money(ags) == get_total_wallets(ags) + get_total_savings(ags)

get_total_loans(ags) == SumSeq([i \in 1 .. Len(ags) |-> ags[i].loans])

\* loans above which a Person counts as poor
PoorLoans == 10
\* loans below which a Person can count as middle class
MidLoans == 10

\* the positions of ags that pass a test, as the list comprehensions do
get_num_rich_agents(ags, threshold) ==
    Cardinality({i \in 1 .. Len(ags) : ags[i].savings > threshold})

get_num_poor_agents(ags) ==
    Cardinality({i \in 1 .. Len(ags) : ags[i].loans > PoorLoans})

get_num_mid_agents_inclusive(ags, threshold) ==
    Cardinality({i \in 1 .. Len(ags) :
        ags[i].loans <= MidLoans /\ ags[i].savings < threshold})
get_num_mid_agents(ags, threshold) ==
    Cardinality({i \in 1 .. Len(ags) :
        ags[i].loans < MidLoans /\ ags[i].savings < threshold})

\* numbers the reporters return: num / den, den = 0 for the result of a
\* division by zero (nan, or the exception of a plain division)
Rat(n, d) == [num |-> n, den |-> d]
RatAdd(a, b) == Rat(a.num * b.den + b.num * a.den, a.den * b.den)
RatSub(a, b) == Rat(a.num * b.den - b.num * a.den, a.den * b.den)
RatMul(a, b) == Rat(a.num * b.num, a.den * b.den)
RatIsZero(a) == a.den # 0 /\ a.num = 0
RatDefined(a) == a.den # 0
\* a <= b for defined a, b with positive denominators
RatLeq(a, b) == a.num * b.den <= b.num * a.den

\* sorted(): insertion of each element into the sorted rest
RECURSIVE Insert(_, _)
Insert(x, s) ==
    IF s = <<>> THEN <<x>>
    ELSE IF x <= Head(s) THEN <<x>> \o s
    ELSE <<Head(s)>> \o Insert(x, Tail(s))

RECURSIVE sorted(_)
sorted(s) == IF s = <<>> THEN <<>> ELSE Insert(Head(s), sorted(Tail(s)))

\* sum(xi * (N - i) for i, xi in enumerate(x)), i from zero
WeightedSum(x) ==
    SumSeq([k \in 1 .. Len(x) |-> x[k] * (Len(x) - (k - 1))])

GiniDivisor(ags) == Len(ags) * get_total_money(ags)

compute_gini(ags) ==
    LET agent_wealths == [i \in 1 .. Len(ags) |-> ags[i].savings]
        x == sorted(agent_wealths)
        N == Len(ags)
        B == Rat(WeightedSum(x), GiniDivisor(ags))
    IN  IF RatIsZero(B) THEN Rat(0, 1)
        ELSE RatSub(RatAdd(Rat(1, 1), Rat(1, N)), RatMul(Rat(2, 1), B))

\* the model_reporters, called on one model (the mean and the standard
\* deviation of the savings, which no property below reads, are left out)
Reporters(ags, threshold) ==
    [Rich        |-> get_num_rich_agents(ags, threshold),
     Poor        |-> get_num_poor_agents(ags),
     MiddleClass |-> get_num_mid_agents(ags, threshold),
     Savings     |-> get_total_savings(ags),
     Wallets     |-> get_total_wallets(ags),
     Money       |-> get_total_money(ags),
     Loans       |-> get_total_loans(ags),
     Gini        |-> compute_gini(ags)]

\* ------------------------------------------------------------------------
\* Bank (written contract, section 4.2)

\* lendable capacity: total_deposits - reserves_required - total_loans,
\* the whole units of it
Capacity(b) == (b.deposits * (100 - b.reserve_percent)) \div 100 - b.loans

\* request_loan: the amount actually granted
Granted(b, amount) ==
    IF Capacity(b) >= amount THEN amount
    ELSE IF Capacity(b) > 0 THEN Capacity(b)
    ELSE 0

\* deposit: always succeeds
deposit(b, amount) == [b EXCEPT !.deposits = @ + amount]

\* request_loan: the bank's aggregate after granting
request_loan(b, amount) == [b EXCEPT !.loans = @ + Granted(b, amount)]

\* repay_loan: the amount is capped at the person's loans
Repaid(personLoans, amount) == Min(amount, personLoans)
repay_loan(b, personLoans, amount) ==
    [b EXCEPT !.loans = @ - Repaid(personLoans, amount)]

\* ------------------------------------------------------------------------
\* Person (written contract, section 4.3)

\* the balance below which a Person asks for a loan
MinBalance == 2

\* the amount one trade moves
TradeAmount == 1

\* every mutation floors its result at zero
DebitUnclamped(w, a) == w - a
Debit(w, a) == Max(w - a, 0)

\* step 2, savings/borrow decision of Person p: repay r from the wallet,
\* deposit what then exceeds the trade threshold, borrow back up to
\* MinBalance when the wallet is below it
Person_balance(p, r) ==
    LET paid  == IF loans[p] > 0 THEN Repaid(loans[p], r) ELSE 0
        w1    == Debit(wallet[p], paid)
        l1    == Debit(loans[p], paid)
        b1    == IF paid > 0 THEN repay_loan(bank, loans[p], r) ELSE bank
        w2    == IF w1 > trade_threshold THEN trade_threshold ELSE w1
        b2    == deposit(b1, w1 - w2)
        asks  == w2 < MinBalance
        req   == MinBalance - w2
        got   == IF asks THEN Granted(b2, req) ELSE 0
        b3    == IF asks THEN request_loan(b2, req) ELSE b2
    IN  /\ wallet' = [wallet EXCEPT ![p] = w2 + got]
        /\ savings' = [savings EXCEPT ![p] = @ + (w1 - w2)]
        /\ loans' = [loans EXCEPT ![p] = l1 + got]
        /\ bank' = b3
        /\ grant' = IF asks
                    THEN [requested |-> req, capacity |-> Capacity(b2),
                          granted |-> got]
                    ELSE NoGrant

\* step 3, trade: amount a leaves the wallet of `from` for the wallet of
\* `to`; what arrives is what left
Person_trade(from, to, a) ==
    LET left == Debit(wallet[from], a)
    IN  /\ wallet' = [wallet EXCEPT ![from] = left,
                                    ![to] = @ + (wallet[from] - left)]
        /\ traded' = wallet[from] - left

\* the Persons p can trade with: those whose wallet exceeds the trade
\* threshold (which of them are in reach is left open)
Partners(p) == {q \in People \ {p} : wallet[q] > trade_threshold}

\* ------------------------------------------------------------------------
\* RandomActivation and BankReservesModel.step

Perms(S) ==
    {s \in [1 .. Cardinality(S) -> S] :
        \A i, j \in 1 .. Cardinality(S) : s[i] = s[j] => i = j}

\* the activations one call of step() makes, given the shuffled order:
\* it calls schedule.step() once
StepTwice(order) == order \o order
StepActivations(order) == order

SimInit ==
    /\ wallet \in [People -> SeedWallets]
    /\ savings = [p \in People |-> 0]
    /\ loans = [p \in People |-> 0]
    /\ reserve_percent \in ReservePercents
    /\ trade_threshold \in TradeThresholds
    /\ bank = Bank(BankArg(reserve_percent))
    /\ queue = <<>>
    /\ phase = "idle"
    /\ stepped = [p \in People |-> 0]
    /\ grant = NoGrant
    /\ traded = NoTraded

\* step() begins: the scheduler shuffles the agents
StartStep ==
    /\ phase = "idle"
    /\ bank.deposits < MaxDeposits
    /\ \E order \in Perms(People) :
          /\ queue' = StepActivations(order)
          /\ phase' = IF queue' = <<>> THEN "end" ELSE "balance"
    /\ stepped' = [p \in People |-> 0]
    /\ UNCHANGED <<wallet, savings, loans, bank, reserve_percent,
                   trade_threshold, grant, traded>>

\* the next Person's step begins: move, then the savings/borrow decision
Balance ==
    /\ phase = "balance"
    /\ \E r \in {0, wallet[Head(queue)]} : Person_balance(Head(queue), r)
    /\ stepped' = [stepped EXCEPT ![Head(queue)] = @ + 1]
    /\ phase' = "trade"
    /\ traded' = NoTraded
    /\ UNCHANGED <<reserve_percent, trade_threshold, queue>>

\* the Person trades with a neighbour and its step ends
Trade ==
    /\ phase = "trade"
    /\ \E q \in Partners(Head(queue)) :
          \/ Person_trade(Head(queue), q, TradeAmount)
          \/ Person_trade(q, Head(queue), TradeAmount)
    /\ queue' = Tail(queue)
    /\ phase' = IF queue' = <<>> THEN "end" ELSE "balance"
    /\ UNCHANGED <<savings, loans, bank, reserve_percent, trade_threshold,
                   stepped, grant>>

\* no eligible partner is present: the trade is a no-op
NoTrade ==
    /\ phase = "trade"
    /\ queue' = Tail(queue)
    /\ phase' = IF queue' = <<>> THEN "end" ELSE "balance"
    /\ UNCHANGED <<wallet, savings, loans, bank, reserve_percent,
                   trade_threshold, stepped, grant, traded>>

\* step() returns
EndStep ==
    /\ phase = "end"
    /\ phase' = "idle"
    /\ UNCHANGED <<wallet, savings, loans, bank, reserve_percent,
                   trade_threshold, queue, stepped, grant, traded>>

MetIdle ==
    /\ agents = <<>>
    /\ rich_threshold = 0
    /\ row = <<>>

\* id_gen = itertools.count(1), a class attribute: its first value
id_gen_first == 1

\* next(self.id_gen): the counter after yielding g
id_gen_per_instance(g) == id_gen_first
id_gen_after(g) == g + 1

NoParams ==
    [init_people |-> <<>>, trade_threshold |-> <<>>, rich_threshold |-> 0,
     reserve_percent |-> 0, width |-> 0, height |-> 0,
     iterations |-> 0, max_steps |-> 0]

NoModel ==
    [uid |-> 0, init_people |-> 0, trade_threshold |-> 0,
     rich_threshold |-> 0, reserve_percent |-> 0, width |-> 0, height |-> 0,
     people |-> 0, steps |-> 0]

BatIdle ==
    /\ id_gen = id_gen_first
    /\ params = NoParams
    /\ bpc = "idle"
    /\ combo = 0
    /\ trial = 0
    /\ model = NoModel
    /\ built = <<>>
    /\ table = {}
    /\ raised = "none"

Init == SimInit /\ MetIdle /\ BatIdle

Next ==
    \/ StartStep /\ UNCHANGED <<metVars, batVars>>
    \/ Balance /\ UNCHANGED <<metVars, batVars>>
    \/ Trade /\ UNCHANGED <<metVars, batVars>>
    \/ NoTrade /\ UNCHANGED <<metVars, batVars>>
    \/ EndStep /\ UNCHANGED <<metVars, batVars>>

Spec == Init /\ [][Next]_vars

\* ------------------------------------------------------------------------
\* Properties of one trial (Spec)

Range(q) == {q[i] : i \in 1 .. Len(q)}

\* C1: reserve invariant.  In every reachable state of a trial
\* total_loans + total_deposits * reserve_percent / 100 <= total_deposits
\* (both sides times 100), the Bank's aggregates are the sums over the
\* Persons, and the last loan request was granted in full only within the
\* lendable capacity, and otherwise only up to that capacity or not at all.
ReserveInvariant ==
    /\ 100 * get_total_loans(schedule_agents)
          + get_total_savings(schedule_agents) * reserve_percent
       <= 100 * get_total_savings(schedule_agents)
    /\ bank.deposits = get_total_savings(schedule_agents)
    /\ bank.loans = get_total_loans(schedule_agents)
    /\ grant.granted >= 0
    /\ grant.granted <= grant.requested
    /\ grant.granted <= Max(grant.capacity, 0)

\* a request above the capacity was granted in part, at 50 percent reserve
ReserveWitness ==
    /\ reserve_percent = 50
    /\ grant.capacity > 0
    /\ grant.requested > grant.capacity
    /\ grant.granted = grant.capacity
    /\ get_total_loans(schedule_agents) > 0

\* C7: non-negativity.  Every Person has wallet >= 0, savings >= 0 and
\* loans >= 0 in every reachable state of a trial.
NonNegativity ==
    \A p \in People : wallet[p] >= 0 /\ savings[p] >= 0 /\ loans[p] >= 0

\* a trade debited a wallet in a step whose loan request was cut short
NonNegativityWitness ==
    /\ traded > 0
    /\ grant.requested > grant.granted
    /\ \E p \in People : wallet[p] = 0

\* C8: exactly-once activation.  Within one step() no Person is activated
\* twice, when step() returns every Person has been activated once, and at
\* most one Person step is under way: only the Person at the head of the
\* queue can have begun without having finished.
ExactlyOnce ==
    /\ \A p \in People : stepped[p] <= 1
    /\ phase = "end" => \A p \in People : stepped[p] = 1
    /\ phase = "balance" =>
          {p \in Range(queue) : stepped[p] > 0} = {}
    /\ phase = "trade" =>
          {p \in Range(queue) : stepped[p] > 0} = {Head(queue)}

\* a step() about to return, having activated everyone, after money moved
ExactlyOnceWitness ==
    /\ phase = "end"
    /\ \A p \in People : stepped[p] = 1
    /\ bank.deposits > 0

\* C10: trade conservation.  The trade of a Person step changes no
\* savings, no loans and no Bank aggregate and leaves get_total_wallets
\* unchanged; it either changes no wallet or moves one amount from the
\* wallet of a Person A to that of another Person B, so that the sum of the
\* two is unchanged, and changes no third wallet.
TradeConservation ==
    [][phase = "trade" =>
         /\ savings' = savings
         /\ loans' = loans
         /\ bank' = bank
         /\ get_total_wallets(schedule_agents')
               = get_total_wallets(schedule_agents)
         /\ \/ wallet' = wallet
            \/ \E a, b \in People :
                  /\ a # b
                  /\ wallet'[a] = wallet[a] - traded'
                  /\ wallet'[b] = wallet[b] + traded'
                  /\ wallet'[a] + wallet'[b] = wallet[a] + wallet[b]
                  /\ \A o \in People \ {a, b} : wallet'[o] = wallet[o]]_vars

\* a trade moved money while at least three Persons hold some, one of
\* them a third party
TradeWitness ==
    /\ traded > 0
    /\ Cardinality({p \in People : wallet[p] > 0}) >= 3

\* ------------------------------------------------------------------------
\* The datacollector functions on a population (MetricsSpec)

WalletVals == 0 .. MaxWallet
SavingsVals == 0 .. MaxSavings
LoanVals == {PoorLoans - 1, PoorLoans, PoorLoans + 1}
RichThresholds == {1, 2}

Populations ==
    UNION {[1 .. n -> {Person(w, sv, l) :
                         w \in WalletVals, sv \in SavingsVals, l \in LoanVals}]
           : n \in 1 .. MaxAgents}

SimIdle ==
    /\ wallet = <<>>
    /\ savings = <<>>
    /\ loans = <<>>
    /\ bank = Bank(0)
    /\ reserve_percent = 0
    /\ trade_threshold = 0
    /\ queue = <<>>
    /\ phase = "none"
    /\ stepped = <<>>
    /\ grant = NoGrant
    /\ traded = NoTraded

MetInit ==
    /\ agents \in Populations
    /\ rich_threshold \in RichThresholds
    /\ row = <<>>

\* the reporters are collected for the model
Collect ==
    /\ row = <<>>
    /\ row' = <<Reporters(agents, rich_threshold)>>
    /\ UNCHANGED <<agents, rich_threshold>>

MetricsInit == SimIdle /\ MetInit /\ BatIdle

MetricsNext == Collect /\ UNCHANGED <<simVars, batVars>>

MetricsSpec == MetricsInit /\ [][MetricsNext]_vars

\* ags without its i-th Person
Without(ags, i) ==
    [k \in 1 .. Len(ags) - 1 |-> IF k < i THEN ags[k] ELSE ags[k + 1]]

\* C2 (as claimed): compute_gini returns exactly 0, without dividing by
\* zero, whenever total_money is 0.
GiniZeroMoney ==
    (row # <<>> /\ get_total_money(agents) = 0) =>
        RatDefined(row[1].Gini) /\ RatIsZero(row[1].Gini)

\* C3 (as claimed): whenever total_money > 0 the value of compute_gini
\* lies in [0, 1].
GiniBounds ==
    (row # <<>> /\ get_total_money(agents) > 0) =>
        /\ RatDefined(row[1].Gini)
        /\ RatLeq(Rat(0, 1), row[1].Gini)
        /\ RatLeq(row[1].Gini, Rat(1, 1))

\* C6: classification gap.  A Person with loans = 10 and savings below
\* rich_threshold adds nothing to Rich, Poor or Middle Class: the three
\* counts are those of the population without that Person.
ClassificationGap ==
    row # <<>> =>
        \A i \in 1 .. Len(agents) :
            (agents[i].loans = 10 /\ agents[i].savings < rich_threshold) =>
                /\ row[1].Rich = get_num_rich_agents(Without(agents, i),
                                                  rich_threshold)
                /\ row[1].Poor = get_num_poor_agents(Without(agents, i))
                /\ row[1].MiddleClass = get_num_mid_agents(Without(agents, i),
                                                        rich_threshold)

\* such a Person was collected and the three counts fall short of the
\* population
ClassificationGapWitness ==
    /\ row # <<>>
    /\ \E i \in 1 .. Len(agents) :
          agents[i].loans = 10 /\ agents[i].savings < rich_threshold
    /\ row[1].Rich + row[1].Poor + row[1].MiddleClass < Len(agents)

\* ------------------------------------------------------------------------
\* batch_run: the sweep (BatchSpec)

\* grid height and width
grid_h == 20
grid_w == 20

PeopleVals == {-1, 1, 2}
ThresholdVals == {0, 10}
ReserveVals == {-5, 5, 101}
WidthVals == {0, grid_w}

\* lists of distinct candidate values, at most MaxSweep long
Lists(S) ==
    UNION {{l \in [1 .. n -> S] : \A i, j \in 1 .. n : l[i] = l[j] => i = j}
           : n \in 1 .. MaxSweep}

\* BankReservesModel.__init__: the model it builds from its arguments
BankReservesModel(uid, kw) ==
    [uid             |-> uid,
     height          |-> kw.height,
     width           |-> kw.width,
     init_people     |-> kw.init_people,
     rich_threshold  |-> kw.rich_threshold,
     trade_threshold |-> kw.trade_threshold,
     reserve_percent |-> kw.reserve_percent,
     people          |-> Cardinality(PersonIds(kw.init_people)),
     steps           |-> 0]

\* random.randrange(n) raises ValueError for n <= 0; __init__ calls it for
\* the width and the height once per Person
InitRaises(kw) ==
    PersonIds(kw.init_people) # {} /\ (kw.width <= 0 \/ kw.height <= 0)

\* MultiGrid(width, height) may or may not accept a dimension that is not
\* positive; it is built after the uid is drawn
GridMayRaise(kw) == kw.width <= 0 \/ kw.height <= 0

\* track_run: the run identity a row is keyed by
track_run_people(m) == m.init_people
track_run(m) == m.uid

\* the cartesian product of the swept lists, the first list outermost
NumCombos(ps) == Len(ps.init_people) * Len(ps.trade_threshold)

Combination(ps, c) ==
    [init_people |->
        ps.init_people[((c - 1) \div Len(ps.trade_threshold)) + 1],
     trade_threshold |->
        ps.trade_threshold[((c - 1) % Len(ps.trade_threshold)) + 1]]

\* a combination merged with the fixed parameters
Kwargs(ps, c) ==
    [init_people     |-> Combination(ps, c).init_people,
     trade_threshold |-> Combination(ps, c).trade_threshold,
     rich_threshold  |-> ps.rich_threshold,
     reserve_percent |-> ps.reserve_percent,
     width           |-> ps.width,
     height          |-> ps.height]

BatInit ==
    /\ id_gen = id_gen_first
    /\ params \in
          [init_people : Lists(PeopleVals),
           trade_threshold : Lists(ThresholdVals),
           rich_threshold : {10},
           reserve_percent : ReserveVals,
           width : WidthVals,
           height : {grid_h},
           iterations : 1 .. MaxIterations,
           max_steps : 1 .. MaxSteps]
    /\ bpc = "next"
    /\ combo = 1
    /\ trial = 0
    /\ model = NoModel
    /\ built = <<>>
    /\ table = {}
    /\ raised = "none"

\* a trial begins: the model is constructed, which draws its uid first
Construct ==
    /\ bpc = "next"
    /\ id_gen' = id_gen_after(id_gen)
    /\ built' = Append(built, BankReservesModel(id_gen, Kwargs(params, combo)))
    /\ \E fails \in BOOLEAN :
          /\ InitRaises(Kwargs(params, combo)) => fails
          /\ fails => (InitRaises(Kwargs(params, combo))
                          \/ GridMayRaise(Kwargs(params, combo)))
          /\ IF fails
             THEN /\ raised' = "ValueError"
                  /\ bpc' = "aborted"
                  /\ model' = NoModel
             ELSE /\ raised' = raised
                  /\ bpc' = "run"
                  /\ model' = BankReservesModel(id_gen, Kwargs(params, combo))
    /\ UNCHANGED <<params, combo, trial, table>>

\* the runner calls model.step() while steps < max_steps
StepModel ==
    /\ bpc = "run"
    /\ model.steps < params.max_steps
    /\ model' = [model EXCEPT !.steps = @ + 1]
    /\ UNCHANGED <<id_gen, params, bpc, combo, trial, built, table, raised>>

\* the step budget is spent: the row of the trial is recorded and the
\* runner moves to the next trial, the next combination, or ends
CollectRun ==
    /\ bpc = "run"
    /\ model.steps >= params.max_steps
    /\ table' = table \cup
          {[uid             |-> track_run(model),
            init_people     |-> Combination(params, combo).init_people,
            trade_threshold |-> Combination(params, combo).trade_threshold,
            steps           |-> model.steps]}
    /\ IF trial + 1 < params.iterations
       THEN /\ trial' = trial + 1
            /\ combo' = combo
            /\ bpc' = "next"
       ELSE /\ trial' = 0
            /\ combo' = combo + 1
            /\ bpc' = IF combo < NumCombos(params) THEN "next" ELSE "done"
    /\ model' = NoModel
    /\ UNCHANGED <<id_gen, params, built, raised>>

BatchInit == SimIdle /\ MetIdle /\ BatInit

BatchNext ==
    \/ Construct /\ UNCHANGED <<simVars, metVars>>
    \/ StepModel /\ UNCHANGED <<simVars, metVars>>
    \/ CollectRun /\ UNCHANGED <<simVars, metVars>>

BatchSpec == BatchInit /\ [][BatchNext]_vars

UniqueIncreasingUid ==
    /\ \A i, j \in 1 .. Len(built) : i < j => built[i].uid < built[j].uid
    /\ \A i \in 1 .. Len(built) : built[i].uid < id_gen

\* models of two different combinations have been built
UniqueIncreasingUidWitness ==
    /\ Len(built) >= 3
    /\ built[1].trade_threshold # built[Len(built)].trade_threshold
    /\ built[1].uid < built[Len(built)].uid

\* negative population, reserve percent outside 0..100, or a grid
\* dimension that is not positive
InvalidConfiguration(ps) ==
    \/ \E i \in 1 .. Len(ps.init_people) : ps.init_people[i] < 0
    \/ ps.reserve_percent < 0
    \/ ps.reserve_percent > 100
    \/ ps.width <= 0
    \/ ps.height <= 0

\* C9 (as claimed): with an invalid parameter the batch raises a
\* configuration error before any trial: no model is built, no uid is
\* drawn, no model is stepped, and nothing else is raised.
ConfigurationErrorFirst ==
    InvalidConfiguration(params) =>
        /\ built = <<>>
        /\ id_gen = id_gen_first
        /\ model.steps = 0
        /\ raised \in {"none", "ConfigurationError"}
        /\ bpc \in {"next", "aborted"}

====
